---- MODULE Spec2Model ----
(***************************************************************************)
(* A model of packet.py: the bit/integer codec, the Internet checksum,     *)
(* and the Ethernet / IPv4 / TCP decode - mutate - encode pipeline with    *)
(* forge_reset.                                                            *)
(*                                                                         *)
(* Python integers are unbounded; the integers of the model are kept below *)
(* 2^31 by the choice of the input buffers (see FrameInputs), and the      *)
(* shifts are written so that no intermediate value leaves that range.     *)
(***************************************************************************)
EXTENDS Integers, Sequences, FiniteSets, TLC

VARIABLES
    pc,      \* position of the caller / of the handler in progress
    buf,     \* the byte buffer handed to the program
    frame,   \* the decoded object graph (EthernetFrame > IPv4Packet > TCPPacket)
    err,     \* the exception that ended the last call, or NoError
    out,     \* the value returned by the last call that returns one
    done,    \* the last operation that ran to completion
    arg,     \* the arguments of the call in progress / of the last call
    pseudo   \* the bytes parent.tcp_checksum_bytes() returned to the last
             \* TCPPacket.replace_checksum

vars == <<pc, buf, frame, err, out, done, arg, pseudo>>

----------------------------------------------------------------------------
(* Values standing for "nothing there".                                    *)

NoFrame == [kind |-> "none"]
NoError == [type |-> "none", msg |-> ""]
NoValue == <<"no value">>
NoArg   == <<"no argument">>

(* The exceptions the code raises.                                         *)
IndexError == [type |-> "IndexError", msg |-> "index out of range"]
NonIPv4Error == [type |-> "ValueError", msg |-> "non-ipv4 packet"]
NonTCPError == [type |-> "ValueError", msg |-> "non-tcp packet"]
\* to_bits with a negative shift count: Python raises ValueError at line 6.
\* The model returns this value in place of the field (fields are >= 0).
NegativeShift == -1

----------------------------------------------------------------------------
(* Python's integer operators on the range the model uses.                 *)

\* i >> k for k >= 0 (floor division by 2^k; \div is floor division).
ShiftRight(i, k) ==
    IF k >= 31 THEN (IF i < 0 THEN -1 ELSE 0) ELSE i \div (2 ^ k)

\* i << k for k >= 0.
ShiftLeft(i, k) == IF i = 0 THEN 0 ELSE i * (2 ^ k)

\* octets[a:b] for 0 <= a: the elements with index a <= i < min(b, len).
Slice(octets, a, b) ==
    LET hi == IF b < Len(octets) THEN b ELSE Len(octets)
    IN  IF hi <= a THEN <<>> ELSE SubSeq(octets, a + 1, hi)

\* octets[a:]
SliceFrom(octets, a) == Slice(octets, a, Len(octets))

----------------------------------------------------------------------------
(* The bit / integer codec.                                                *)

\* to_bits that ignores the offset.
to_bits_no_offset(octet, offset, length, n_bits) ==
    LET mask == (2 ^ length) - 1
        shift == n_bits - length
    IN  IF shift < 0 THEN NegativeShift
        ELSE ShiftRight(octet, shift) % (mask + 1)

to_bits(octet, offset, length, n_bits) ==
    LET mask == (2 ^ length) - 1
        shift == n_bits - offset - length
    IN  IF shift < 0 THEN NegativeShift
        ELSE ShiftRight(octet, shift) % (mask + 1)

to_octets(i, n_octets) ==
    IF n_octets <= 0 THEN <<>>
    ELSE [x \in 1..n_octets |-> to_bits(i, 8 * (x - 1), 8, 8 * n_octets)]

RECURSIVE to_integer(_, _)
to_integer(octets, n_bits) ==
    IF octets = <<>> THEN 0
    ELSE ShiftLeft(Head(octets), (Len(octets) - 1) * n_bits)
         + to_integer(Tail(octets), n_bits)

RECURSIVE to_integer_le_from(_, _, _)
to_integer_le_from(octets, n_bits, l) ==
    IF octets = <<>> THEN 0
    ELSE ShiftLeft(Head(octets), l * n_bits)
         + to_integer_le_from(Tail(octets), n_bits, l + 1)

to_integer_le(octets, n_bits) == to_integer_le_from(octets, n_bits, 0)

----------------------------------------------------------------------------
(* The Internet checksum.                                                  *)

RECURSIVE SumWordsLE(_)
SumWordsLE(octets) ==
    IF octets = <<>> THEN 0
    ELSE to_integer_le(Slice(octets, 0, 2), 8) + SumWordsLE(SliceFrom(octets, 2))

\* checksum that folds the carry once.
checksum_single_fold(octets) ==
    LET padded == IF Len(octets) % 2 = 1 THEN octets \o <<0>> ELSE octets
        s0 == SumWordsLE(padded)
        s1 == ShiftRight(s0, 16) + (s0 % 65536)
        s3 == -s1 - 1
    IN  ((ShiftRight(s3, 8) % 256) + ShiftLeft(s3, 8)) % 65536

\* checksum that does not swap the two bytes of the result.
checksum_no_swap(octets) ==
    LET padded == IF Len(octets) % 2 = 1 THEN octets \o <<0>> ELSE octets
        s0 == SumWordsLE(padded)
        s1 == ShiftRight(s0, 16) + (s0 % 65536)
        s2 == s1 + ShiftRight(s1, 16)
        s3 == -s2 - 1
    IN  s3 % 65536

\* Line 41, ~s, is -s - 1.  Line 42: s << 8 has its low eight bits clear and
\* (s >> 8) & 0xff lies in 0..255, so their bitwise or is their sum.
checksum(octets) ==
    LET padded == IF Len(octets) % 2 = 1 THEN octets \o <<0>> ELSE octets
        s0 == SumWordsLE(padded)
        s1 == ShiftRight(s0, 16) + (s0 % 65536)
        s2 == s1 + ShiftRight(s1, 16)
        s3 == -s2 - 1
    IN  ((ShiftRight(s3, 8) % 256) + ShiftLeft(s3, 8)) % 65536

----------------------------------------------------------------------------
(* The address value types: the tuple of the octets they are built from.   *)

MACAddress(octets) == octets

\* an address built from one octet too few.
IPv4Address_off_by_one(octets) == Slice(octets, 0, Len(octets) - 1)

IPv4Address(octets) == octets

\* octets[i], for an index the caller has checked to be present.
At(octets, i) == octets[i + 1]

\* int(flag) and bool(bit)
BoolToInt(b) == IF b THEN 1 ELSE 0

IntToBool(i) == i # 0

----------------------------------------------------------------------------
(* TCPPacket                                                               *)

\* The constructor returns [err, obj]: the exception raised (obj is then
\* NoFrame: no object reaches the caller) or NoError and the object.  The
\* slices never raise; the first indexed reads are octets[12] and octets[13].
TCPPacket_init(octets) ==
    IF Len(octets) < 14 THEN [err |-> IndexError, obj |-> NoFrame]
    ELSE
      LET data_offset == to_bits(At(octets, 12), 0, 4, 8)
          option_words == data_offset - 5
      IN  [err |-> NoError,
           obj |-> [kind |-> "TCPPacket",
                    raw_in |-> octets,
                    source_port |-> to_integer(Slice(octets, 0, 2), 8),
                    dest_port |-> to_integer(Slice(octets, 2, 4), 8),
                    sequence |-> to_integer(Slice(octets, 4, 8), 8),
                    ack_number |-> to_integer(Slice(octets, 8, 12), 8),
                    data_offset |-> data_offset,
                    reserved |-> to_bits(At(octets, 12), 4, 3, 8),
                    NS |-> IntToBool(to_bits(At(octets, 12), 7, 1, 8)),
                    CWR |-> IntToBool(to_bits(At(octets, 13), 0, 1, 8)),
                    ECE |-> IntToBool(to_bits(At(octets, 13), 1, 1, 8)),
                    URG |-> IntToBool(to_bits(At(octets, 13), 2, 1, 8)),
                    ACK |-> IntToBool(to_bits(At(octets, 13), 3, 1, 8)),
                    PSH |-> IntToBool(to_bits(At(octets, 13), 4, 1, 8)),
                    RST |-> IntToBool(to_bits(At(octets, 13), 5, 1, 8)),
                    SYN |-> IntToBool(to_bits(At(octets, 13), 6, 1, 8)),
                    FIN |-> IntToBool(to_bits(At(octets, 13), 7, 1, 8)),
                    window_size |-> to_integer(Slice(octets, 14, 16), 8),
                    checksum |-> to_integer(Slice(octets, 16, 18), 8),
                    urgent_pointer |-> to_integer(Slice(octets, 18, 20), 8),
                    options |-> to_integer(
                        Slice(octets, 20, 20 + (4 * option_words)), 8),
                    payload |-> SliceFrom(octets, 20 + (4 * option_words))]]

TCPPacket_raw_header(t) ==
    to_octets(t.source_port, 2) \o
    to_octets(t.dest_port, 2) \o
    to_octets(t.sequence, 4) \o
    to_octets(t.ack_number, 4) \o
    to_octets(ShiftLeft(t.data_offset, 4) + ShiftLeft(t.reserved, 1)
              + BoolToInt(t.NS), 1) \o
    to_octets(to_integer(<<BoolToInt(t.CWR), BoolToInt(t.ECE),
                           BoolToInt(t.URG), BoolToInt(t.ACK),
                           BoolToInt(t.PSH), BoolToInt(t.RST),
                           BoolToInt(t.SYN), BoolToInt(t.FIN)>>, 1), 1) \o
    to_octets(t.window_size, 2) \o
    to_octets(t.checksum, 2) \o
    to_octets(t.urgent_pointer, 2) \o
    to_octets(t.options, (t.data_offset - 5) * 4)

TCPPacket_raw(t) == TCPPacket_raw_header(t) \o t.payload

----------------------------------------------------------------------------
(* IPv4Packet                                                              *)

\* Reads in source order: octets[0], the version check, octets[1],
\* octets[8], octets[9], the protocol check, then the TCPPacket.
IPv4Packet_init(octets) ==
    IF Len(octets) < 1 THEN [err |-> IndexError, obj |-> NoFrame]
    ELSE IF to_bits(At(octets, 0), 0, 4, 8) # 4
      THEN [err |-> NonIPv4Error, obj |-> NoFrame]
    ELSE IF Len(octets) < 10 THEN [err |-> IndexError, obj |-> NoFrame]
    ELSE IF At(octets, 9) # 6 THEN [err |-> NonTCPError, obj |-> NoFrame]
    ELSE
      LET ihl == to_bits(At(octets, 0), 4, 4, 8)
          flags_and_fragment == to_integer(Slice(octets, 6, 8), 8)
          option_words == ihl - 5
          tcp == TCPPacket_init(SliceFrom(octets, 20 + (4 * option_words)))
      IN  IF tcp.err # NoError THEN [err |-> tcp.err, obj |-> NoFrame]
          ELSE
          [err |-> NoError,
           obj |-> [kind |-> "IPv4Packet",
                    raw_in |-> octets,
                    version |-> to_bits(At(octets, 0), 0, 4, 8),
                    ihl |-> ihl,
                    dscp |-> to_bits(At(octets, 1), 0, 6, 8),
                    ecn |-> to_bits(At(octets, 1), 6, 2, 8),
                    length |-> to_integer(Slice(octets, 2, 4), 8),
                    identification |-> to_integer(Slice(octets, 4, 6), 8),
                    flags |-> to_bits(flags_and_fragment, 0, 3, 16),
                    fragment_offset |-> to_bits(flags_and_fragment, 3, 13, 16),
                    ttl |-> At(octets, 8),
                    protocol |-> At(octets, 9),
                    checksum |-> to_integer(Slice(octets, 10, 12), 8),
                    source_address |-> IPv4Address(Slice(octets, 12, 16)),
                    dest_address |-> IPv4Address(Slice(octets, 16, 20)),
                    options |-> to_integer(
                        Slice(octets, 20, 20 + (4 * option_words)), 8),
                    payload |-> tcp.obj]]

\* a header serialized without its options.
IPv4Packet_raw_header_no_options(p) ==
    to_octets(to_integer(<<p.version, p.ihl>>, 4), 1) \o
    to_octets(ShiftLeft(p.dscp, 2) + p.ecn, 1) \o
    to_octets(p.length, 2) \o
    to_octets(p.identification, 2) \o
    to_octets(ShiftLeft(p.flags, 13) + p.fragment_offset, 2) \o
    to_octets(p.ttl, 1) \o
    to_octets(p.protocol, 1) \o
    to_octets(p.checksum, 2) \o
    p.source_address \o
    p.dest_address

IPv4Packet_raw_header(p) ==
    to_octets(to_integer(<<p.version, p.ihl>>, 4), 1) \o
    to_octets(ShiftLeft(p.dscp, 2) + p.ecn, 1) \o
    to_octets(p.length, 2) \o
    to_octets(p.identification, 2) \o
    to_octets(ShiftLeft(p.flags, 13) + p.fragment_offset, 2) \o
    to_octets(p.ttl, 1) \o
    to_octets(p.protocol, 1) \o
    to_octets(p.checksum, 2) \o
    p.source_address \o
    p.dest_address \o
    to_octets(p.options, (p.ihl - 5) * 4)

IPv4Packet_raw(p) == IPv4Packet_raw_header(p) \o TCPPacket_raw(p.payload)

\* a pseudo-header that carries the length of the segment as it was parsed.
tcp_checksum_bytes_parsed_length(p) ==
    p.source_address \o
    p.dest_address \o
    to_octets(0, 1) \o
    to_octets(p.protocol, 1) \o
    to_octets(Len(p.payload.raw_in), 2)

tcp_checksum_bytes(p) ==
    p.source_address \o
    p.dest_address \o
    to_octets(0, 1) \o
    to_octets(p.protocol, 1) \o
    to_octets(Len(TCPPacket_raw(p.payload)), 2)

\* IPv4Packet.replace_checksum: the packet after the two assignments.
IPv4Packet_replace_checksum(p) ==
    LET zeroed == [p EXCEPT !.checksum = 0]
    IN  [zeroed EXCEPT !.checksum = checksum(IPv4Packet_raw_header(zeroed))]

\* the checksum input of the standard: the payload summed too.
TCPPacket_checksum_input_with_payload(p) ==
    LET zeroed == [p EXCEPT !.payload.checksum = 0]
    IN  tcp_checksum_bytes(zeroed) \o TCPPacket_raw(zeroed.payload)

\* TCPPacket.replace_checksum on the segment of packet p (its parent): the
\* pseudo-header is read from the parent after self.checksum = 0.
TCPPacket_checksum_input(p) ==
    LET zeroed == [p EXCEPT !.payload.checksum = 0]
    IN  tcp_checksum_bytes(zeroed) \o TCPPacket_raw_header(zeroed.payload)

TCPPacket_replace_checksum(p) ==
    [p EXCEPT !.payload.checksum = checksum(TCPPacket_checksum_input(p))]

----------------------------------------------------------------------------
(* EthernetFrame                                                           *)

\* a constructor that does not check the ethertype.
EthernetFrame_init_no_ethertype_check(octets) ==
    IF Len(octets) < 14 THEN [err |-> IndexError, obj |-> NoFrame]
    ELSE
      LET ethertype == ShiftLeft(At(octets, 12), 8) + At(octets, 13)
          ip == IPv4Packet_init(SliceFrom(octets, 14))
      IN  IF ip.err # NoError THEN [err |-> ip.err, obj |-> NoFrame]
          ELSE
          [err |-> NoError,
           obj |-> [kind |-> "EthernetFrame",
                    raw_in |-> octets,
                    dest_address |-> MACAddress(Slice(octets, 0, 6)),
                    source_address |-> MACAddress(Slice(octets, 6, 12)),
                    ethertype |-> ethertype,
                    payload |-> ip.obj]]

EthernetFrame_init(octets) ==
    IF Len(octets) < 14 THEN [err |-> IndexError, obj |-> NoFrame]
    ELSE
      LET ethertype == ShiftLeft(At(octets, 12), 8) + At(octets, 13)
          ip == IPv4Packet_init(SliceFrom(octets, 14))
      IN  IF ethertype # 2048 THEN [err |-> NonIPv4Error, obj |-> NoFrame]
          ELSE IF ip.err # NoError THEN [err |-> ip.err, obj |-> NoFrame]
          ELSE
          [err |-> NoError,
           obj |-> [kind |-> "EthernetFrame",
                    raw_in |-> octets,
                    dest_address |-> MACAddress(Slice(octets, 0, 6)),
                    source_address |-> MACAddress(Slice(octets, 6, 12)),
                    ethertype |-> ethertype,
                    payload |-> ip.obj]]

EthernetFrame_raw(f) ==
    f.dest_address \o
    f.source_address \o
    to_octets(f.ethertype, 2) \o
    IPv4Packet_raw(f.payload)

----------------------------------------------------------------------------
(* The input buffers.  Each is a frame laid out field by field, then cut    *)
(* to a length; the first byte of every 32-bit group stays below 0x80 so    *)
(* that the integers the decoder builds stay below 2^31.                    *)

\* Longest TCP payload of an input frame.
MaxPayload == 2

\* dest MAC 00:11:22:33:44:55, source MAC 66:77:88:99:aa:bb, ethertype 08 et
BaseEth(et) == <<0, 17, 34, 51, 68, 85, 102, 119, 136, 153, 170, 187, 8, et>>

\* DSCP 11 / ECN 2, total length 60, id 0x1c46, flags 2 / fragment 0x1fa1,
\* TTL 64, checksum 0xb1e6, 10.1.2.3 -> 10.0.0.255
BaseIP(verihl, proto) ==
    <<verihl, 46, 0, 60, 28, 70, 95, 161, 64, proto, 177, 230,
      10, 1, 2, 3, 10, 0, 0, 255>>

\* One option word when the IHL nibble says 6.
IPOptionBytes(verihl) == IF verihl % 16 = 6 THEN <<0, 7, 4, 1>> ELSE <<>>

\* ports 12345 -> 80, sequence 0x12345678, ack 0x12abcdef, window 0xffff,
\* checksum 0xbeef, urgent pointer 7
BaseTCP(b12, b13) ==
    <<48, 57, 0, 80, 18, 52, 86, 120, 18, 171, 205, 239, b12, b13,
      255, 255, 190, 239, 0, 7>>

\* One option word when the data-offset nibble says 6.
TCPOptionBytes(b12) == IF b12 \div 16 = 6 THEN <<1, 1, 4, 2>> ELSE <<>>

PayloadBytes(n) == [i \in 1..n |-> (72 + 33 * (i - 1)) % 256]

\* Another payload of the same length, for comparing two segments.
OtherPayloadBytes(n) == [i \in 1..n |-> (255 - i) % 256]

FullFrame(et, verihl, proto, b12, b13, n) ==
    BaseEth(et) \o BaseIP(verihl, proto) \o IPOptionBytes(verihl) \o
    BaseTCP(b12, b13) \o TCPOptionBytes(b12) \o PayloadBytes(n)

\* The lengths buffers are cut to: inside each header, at each boundary.
CutLengths == {13, 14, 15, 23, 24, 28, 29, 32, 33, 34, 47, 48, 52, 54, 56}

Cut(full, n) == IF n < Len(full) THEN Slice(full, 0, n) ELSE full

\* version/IHL bytes: version 4 with IHL 0, 1, 4, 5, 6
ShapeVerIHL == {64, 65, 68, 69, 70}

\* data-offset/reserved/NS bytes: offset 4; 5; 5 with reserved 7 and NS; 6
ShapeB12 == {64, 80, 95, 96}

\* flag bytes: none; SYN+ACK; PSH+ACK; RST; all but RST; all
FlagBytes == {0, 18, 24, 4, 251, 255}

\* Buffers that fail (or pass) each of the three protocol checks.
RejectInputs ==
    UNION {{Cut(FullFrame(et, vi, pr, 80, 18, 1), n), FullFrame(et, vi, pr, 80, 18, 1)} :
           et \in {0, 6}, vi \in {69, 101}, pr \in {6, 17}, n \in CutLengths}

\* Buffers of every header shape and length.
ShapeInputs ==
    UNION {{Cut(FullFrame(0, vi, 6, b12, 18, m), n), FullFrame(0, vi, 6, b12, 18, m)} :
           vi \in ShapeVerIHL, b12 \in ShapeB12, m \in 0..MaxPayload,
           n \in CutLengths}

\* Well-formed buffers with every flag byte.
FlagInputs ==
    {FullFrame(0, 69, 6, b12, b13, m) :
     b12 \in {80, 95}, b13 \in FlagBytes, m \in 0..MaxPayload}

FrameInputs == RejectInputs \cup ShapeInputs \cup FlagInputs

\* The sequence numbers forge_reset is called with.
ForgeSequences == {0, 12345, 2147483647}

----------------------------------------------------------------------------
(* The program: decode, then any of raw(), the two replace_checksum and    *)
(* forge_reset, any number of times.                                        *)

Init ==
    /\ buf \in FrameInputs
    /\ pc = "start"
    /\ frame = NoFrame
    /\ err = NoError
    /\ out = NoValue
    /\ done = "none"
    /\ arg = NoArg
    /\ pseudo = NoValue

\* EthernetFrame(buf)
Decode ==
    /\ pc = "start"
    /\ LET r == EthernetFrame_init(buf)
       IN  /\ frame' = r.obj
           /\ err' = r.err
           /\ pc' = IF r.err = NoError THEN "idle" ELSE "rejected"
    /\ done' = "decode"
    /\ out' = NoValue
    /\ arg' = NoArg
    /\ pseudo' = NoValue
    /\ UNCHANGED buf

\* frame.raw()
Raw ==
    /\ pc = "idle"
    /\ out' = EthernetFrame_raw(frame)
    /\ done' = "raw"
    /\ arg' = NoArg
    /\ pseudo' = NoValue
    /\ UNCHANGED <<pc, buf, frame, err>>

\* forge_reset that also normalises the header length.
ForgeMutate_reset_offset(t, sequence) ==
    [t EXCEPT !.NS = FALSE, !.CWR = FALSE, !.ECE = FALSE, !.URG = FALSE,
              !.ACK = FALSE, !.PSH = FALSE, !.RST = TRUE, !.SYN = FALSE,
              !.FIN = FALSE, !.sequence = sequence, !.ack_number = 0,
              !.window_size = 0, !.urgent_pointer = 0, !.payload = <<>>,
              !.data_offset = 5, !.options = 0]

\* forge_reset that forgets one flag.
ForgeMutate_keep_SYN(t, sequence) ==
    [t EXCEPT !.NS = FALSE, !.CWR = FALSE, !.ECE = FALSE, !.URG = FALSE,
              !.ACK = FALSE, !.PSH = FALSE, !.RST = TRUE,
              !.FIN = FALSE, !.sequence = sequence, !.ack_number = 0,
              !.window_size = 0, !.urgent_pointer = 0, !.payload = <<>>]

\* forge_reset, lines 229-243: the assignments to the segment's fields.
ForgeMutate(t, sequence) ==
    [t EXCEPT !.NS = FALSE, !.CWR = FALSE, !.ECE = FALSE, !.URG = FALSE,
              !.ACK = FALSE, !.PSH = FALSE, !.RST = TRUE, !.SYN = FALSE,
              !.FIN = FALSE, !.sequence = sequence, !.ack_number = 0,
              !.window_size = 0, !.urgent_pointer = 0, !.payload = <<>>]

\* frame.payload.payload.forge_reset(sequence), up to line 243.  The two
\* calls that end it are the next two steps of the handler.
ForgeReset ==
    /\ pc = "idle"
    /\ \E sequence \in ForgeSequences :
         /\ frame' = [frame EXCEPT !.payload.payload =
                                       ForgeMutate(@, sequence)]
         /\ arg' = <<sequence>>
    /\ pc' = "forge_ip"
    /\ out' = NoValue
    /\ pseudo' = NoValue
    /\ UNCHANGED <<buf, err, done>>

\* IPv4Packet.replace_checksum: called on frame.payload, or line 245 of
\* forge_reset.
IPv4ReplaceChecksum ==
    /\ pc \in {"idle", "forge_ip"}
    /\ frame' = [frame EXCEPT !.payload = IPv4Packet_replace_checksum(@)]
    /\ pc' = IF pc = "forge_ip" THEN "forge_tcp" ELSE "idle"
    /\ done' = IF pc = "forge_ip" THEN done ELSE "ip_replace_checksum"
    /\ arg' = IF pc = "forge_ip" THEN arg ELSE NoArg
    /\ out' = NoValue
    /\ pseudo' = NoValue
    /\ UNCHANGED <<buf, err>>

\* TCPPacket.replace_checksum: called on frame.payload.payload, or line 246
\* of forge_reset, which it ends.
TCPReplaceChecksum ==
    /\ pc \in {"idle", "forge_tcp"}
    /\ frame' = [frame EXCEPT !.payload = TCPPacket_replace_checksum(@)]
    /\ pseudo' = tcp_checksum_bytes([frame.payload EXCEPT !.payload.checksum = 0])
    /\ pc' = "idle"
    /\ done' = IF pc = "forge_tcp" THEN "forge_reset" ELSE "tcp_replace_checksum"
    /\ arg' = IF pc = "forge_tcp" THEN arg ELSE NoArg
    /\ out' = NoValue
    /\ UNCHANGED <<buf, err>>

Next ==
    \/ Decode
    \/ Raw
    \/ ForgeReset
    \/ IPv4ReplaceChecksum
    \/ TCPReplaceChecksum

Spec == Init /\ [][Next]_vars

----------------------------------------------------------------------------
(* to_bits as a call of its own: the arguments are drawn, the call returns. *)

BitsValues == {0, 1, 5, 64, 69, 127, 128, 170, 180, 255, 256, 4660, 24481, 32768, 46260, 65535}

BitsArgs ==
    {<<value, offset, length, n_bits>> :
     value \in BitsValues, offset \in 0..16, length \in 0..16, n_bits \in {8, 16}}

BitsInit ==
    /\ pc = "to_bits"
    /\ arg \in BitsArgs
    /\ buf = <<>>
    /\ frame = NoFrame
    /\ err = NoError
    /\ out = NoValue
    /\ done = "none"
    /\ pseudo = NoValue

ToBitsCall ==
    /\ pc = "to_bits"
    /\ out' = to_bits(arg[1], arg[2], arg[3], arg[4])
    /\ pc' = "returned"
    /\ done' = "to_bits"
    /\ UNCHANGED <<buf, frame, err, arg, pseudo>>

SpecBits == BitsInit /\ [][ToBitsCall]_vars

----------------------------------------------------------------------------
(* checksum as calls of its own: over a buffer whose checksum field holds  *)
(* zero, the result written into the field, and checksum over the result.   *)

\* Longest buffer the checksum is run over.
MaxChecksumLen == 8

ChecksumBytes == {0, 1, 255}

\* The field at byte offset p of buffer h set to the two octets v.
WriteField(h, p, v) ==
    [i \in 1..Len(h) |-> IF i = p + 1 THEN v[1] ELSE IF i = p + 2 THEN v[2] ELSE h[i]]

ChecksumInit ==
    /\ pc = "checksum"
    /\ \E n \in 2..MaxChecksumLen :
         \E p \in {q \in 0..(n - 2) : q % 2 = 0} :
           /\ buf \in {h \in [1..n -> ChecksumBytes] : h[p + 1] = 0 /\ h[p + 2] = 0}
           /\ arg = <<p>>
    /\ frame = NoFrame
    /\ err = NoError
    /\ out = NoValue
    /\ done = "none"
    /\ pseudo = NoValue

\* checksum(H)
ChecksumCall ==
    /\ pc = "checksum"
    /\ out' = checksum(buf)
    /\ pc' = "insert"
    /\ done' = "checksum"
    /\ UNCHANGED <<buf, frame, err, arg, pseudo>>

\* the result stored as the replace_checksum methods store and serialize it:
\* to_octets(self.checksum, 2) at the field's place
InsertChecksum ==
    /\ pc = "insert"
    /\ buf' = WriteField(buf, arg[1], to_octets(out, 2))
    /\ pc' = "verify"
    /\ done' = "insert"
    /\ UNCHANGED <<frame, err, out, arg, pseudo>>

\* checksum over the buffer with the field filled in
VerifyCall ==
    /\ pc = "verify"
    /\ out' = checksum(buf)
    /\ pc' = "verified"
    /\ done' = "verify"
    /\ UNCHANGED <<buf, frame, err, arg, pseudo>>

ChecksumNext ==
    \/ ChecksumCall
    \/ InsertChecksum
    \/ VerifyCall

SpecChecksum == ChecksumInit /\ [][ChecksumNext]_vars

----------------------------------------------------------------------------
(* Names used by the properties.                                           *)

Decoded == frame # NoFrame

\* The caller has the control back from the named operation.
After(operation) == pc = "idle" /\ done = operation

IP == frame.payload

TCP == frame.payload.payload

\* The object graph as the constructor built it from buf.
Original == EthernetFrame_init(buf).obj

\* The three protocol fields of a buffer, where the buffer holds them.
HasEthertype(b) == Len(b) >= 14

HasVersion(b) == Len(b) >= 15

HasProtocol(b) == Len(b) >= 24

EthertypeOf(b) == 256 * b[13] + b[14]

VersionOf(b) == b[15] \div 16

IHLOf(b) == b[15] % 16

ProtocolOf(b) == b[24]

PassesChecks(b) ==
    /\ HasProtocol(b)
    /\ EthertypeOf(b) = 2048
    /\ VersionOf(b) = 4
    /\ ProtocolOf(b) = 6

\* Where the TCP header starts by the IHL, and the data offset read there.
TCPStart(b) == 14 + 4 * IHLOf(b)

DataOffsetOf(b) == b[TCPStart(b) + 13] \div 16

\* Both header lengths are at least 5 words and the buffer holds both
\* headers with the options they declare.
WellFormed(b) ==
    /\ PassesChecks(b)
    /\ IHLOf(b) >= 5
    /\ Len(b) >= TCPStart(b) + 20
    /\ DataOffsetOf(b) >= 5
    /\ Len(b) >= TCPStart(b) + 4 * DataOffsetOf(b)

----------------------------------------------------------------------------
(* C1: round trip.                                                         *)

\* C1 as claimed: every buffer that passes the three protocol checks decodes,
\* and raw() of the unmodified result is the buffer, whatever its length, IHL
\* and data offset.
C1_RoundTripAnyBuffer ==
    /\ (done = "decode" /\ PassesChecks(buf)) => err = NoError
    /\ (After("raw") /\ frame = Original /\ PassesChecks(buf)) => out = buf

\* C1 amended: a buffer that passes the three checks, whose IHL and data
\* offset are at least 5 and which holds both headers in full, decodes, and
\* raw() of the unmodified result is the buffer byte for byte.
C1_RoundTripWellFormed ==
    /\ (done = "decode" /\ WellFormed(buf)) => err = NoError
    /\ (After("raw") /\ frame = Original /\ WellFormed(buf)) => out = buf

\* raw() returned a well-formed buffer that has IP options, TCP options and a
\* payload.
C1_Witness ==
    /\ After("raw")
    /\ frame = Original
    /\ WellFormed(buf)
    /\ IP.ihl = 6
    /\ TCP.data_offset = 6
    /\ Len(TCP.payload) = MaxPayload
    /\ out = buf

----------------------------------------------------------------------------
(* C2: what forge_reset leaves in the segment.                             *)

\* C2: after forge_reset(s), RST is set, the other eight flags are clear,
\* sequence is s, ack number, window size and urgent pointer are 0 and the
\* payload is empty.
C2_ForgeResetPostcondition ==
    After("forge_reset") =>
        /\ TCP.RST = TRUE
        /\ ~TCP.NS /\ ~TCP.CWR /\ ~TCP.ECE /\ ~TCP.URG
        /\ ~TCP.ACK /\ ~TCP.PSH /\ ~TCP.SYN /\ ~TCP.FIN
        /\ TCP.sequence = arg[1]
        /\ TCP.ack_number = 0
        /\ TCP.window_size = 0
        /\ TCP.urgent_pointer = 0
        /\ TCP.payload = <<>>

\* forge_reset(12345) has run on a segment parsed with every flag but RST
\* set, nonzero numbers and a payload.
C2_Witness ==
    /\ After("forge_reset")
    /\ arg = <<12345>>
    /\ Original.payload.payload.SYN /\ Original.payload.payload.NS
    /\ ~Original.payload.payload.RST
    /\ Original.payload.payload.ack_number # 0
    /\ Original.payload.payload.payload # <<>>
    /\ TCP.sequence = 12345

----------------------------------------------------------------------------
(* C3: both checksums after forge_reset.                                   *)

IPv4ChecksumConsistent == checksum(IPv4Packet_raw_header(IP)) = 0

TCPChecksumConsistent ==
    checksum(tcp_checksum_bytes(IP) \o TCPPacket_raw_header(TCP)) = 0

\* C3 as claimed: after forge_reset on any decoded frame, the checksum over
\* the serialized IPv4 header is 0 and the checksum over pseudo-header plus
\* serialized TCP header is 0.
C3_ChecksumsAfterForgeAnyFrame ==
    After("forge_reset") => IPv4ChecksumConsistent /\ TCPChecksumConsistent

\* C3 amended: after forge_reset the checksum over the serialized IPv4 header
\* is 0, and the checksum over pseudo-header plus serialized TCP header is 0
\* whenever the pseudo-header has an even number of bytes, as the 12-byte
\* pseudo-header of two 4-byte addresses has.
C3_ChecksumsAfterForge ==
    After("forge_reset") =>
        /\ IPv4ChecksumConsistent
        /\ Len(tcp_checksum_bytes(IP)) % 2 = 0 => TCPChecksumConsistent

\* forge_reset has run on a frame with a 12-byte pseudo-header, IP options
\* and a payload, and left nonzero checksums.
C3_Witness ==
    /\ After("forge_reset")
    /\ Len(tcp_checksum_bytes(IP)) = 12
    /\ IP.ihl = 6
    /\ Original.payload.payload.payload # <<>>
    /\ IP.checksum # 0
    /\ TCP.checksum # 0
    /\ IPv4ChecksumConsistent
    /\ TCPChecksumConsistent

----------------------------------------------------------------------------
(* C4: the checksum of a buffer that carries its own checksum.             *)

\* C4: for a buffer with a zeroed 16-bit field at an even offset, writing
\* checksum(buffer) into the field big-endian and running checksum over the
\* result gives 0.
C4_ChecksumSelfConsistent == pc = "verified" => out = 0

\* The buffer was verified, and the sum of its words with the field zeroed
\* was one whose first fold carries again.
C4_Witness ==
    /\ pc = "verified"
    /\ out = 0
    /\ LET s0 == SumWordsLE(WriteField(buf, arg[1], <<0, 0>>) \o
                            (IF Len(buf) % 2 = 1 THEN <<0>> ELSE <<>>))
       IN  ShiftRight(s0, 16) + (s0 % 65536) >= 65536

----------------------------------------------------------------------------
(* C5: to_bits.                                                            *)

\* Bit j (0 is the most significant) of the n_bits-bit value.
BitAt(value, n_bits, j) == (value \div (2 ^ (n_bits - 1 - j))) % 2

\* The field's value, bit by bit.
RECURSIVE FieldValue(_, _, _, _)
FieldValue(value, offset, length, n_bits) ==
    IF length = 0 THEN 0
    ELSE 2 * FieldValue(value, offset, length - 1, n_bits)
         + BitAt(value, n_bits, offset + length - 1)

\* C5 as claimed, in the part that fails: to_bits(0b10110100, 2, 3, 8) is 5.
C5_VectorIsFive ==
    (pc = "returned" /\ arg = <<180, 2, 3, 8>>) => out = 5

\* C5 amended: to_bits returns the value of the length-bit field that starts
\* offset bits from the most significant bit of an n_bits-bit value, and
\* to_bits(0b10110100, 2, 3, 8) is that field's value 0b110, which is 6.
C5_ToBitsExtractsField ==
    pc = "returned" =>
        /\ arg[2] + arg[3] <= arg[4] =>
               out = FieldValue(arg[1], arg[2], arg[3], arg[4])
        /\ arg = <<180, 2, 3, 8>> => out = 6

\* to_bits(0b10110100, 2, 3, 8) has returned 6.
C5_Witness == pc = "returned" /\ arg = <<180, 2, 3, 8>> /\ out = 6

----------------------------------------------------------------------------
(* C6: rejection.                                                          *)

FailsEthertype(b) == HasEthertype(b) /\ EthertypeOf(b) # 2048

FailsVersion(b) ==
    /\ HasVersion(b) /\ EthertypeOf(b) = 2048
    /\ VersionOf(b) # 4

FailsProtocol(b) ==
    /\ HasProtocol(b) /\ EthertypeOf(b) = 2048 /\ VersionOf(b) = 4
    /\ ProtocolOf(b) # 6

\* C6 as claimed, in the part that fails: each failed check is reported by an
\* error of its own kind, so a failed version check is not reported by the
\* error a failed ethertype check raises.
C6_ErrorOfItsOwnKind ==
    (done = "decode" /\ FailsVersion(buf)) => err # NonIPv4Error

\* C6 amended: the checks run in the order ethertype, version, protocol and
\* the first that fails ends decoding with a ValueError: "non-ipv4 packet"
\* for the ethertype and for the version alike, "non-tcp packet" for the
\* protocol.  Whenever decoding fails the caller has no object.
C6_Rejection ==
    done = "decode" =>
        /\ FailsEthertype(buf) => err = NonIPv4Error
        /\ FailsVersion(buf) => err = NonIPv4Error
        /\ FailsProtocol(buf) => err = NonTCPError
        /\ err # NoError => (frame = NoFrame /\ pc = "rejected")
        /\ err = NoError => PassesChecks(buf)

\* A buffer with a good ethertype and IP version 6 was rejected.
C6_Witness ==
    /\ done = "decode"
    /\ FailsVersion(buf)
    /\ pc = "rejected"
    /\ err = NonIPv4Error
    /\ frame = NoFrame

----------------------------------------------------------------------------
(* C7: the lengths of the addresses.                                       *)

\* C7 as claimed: in every decoded frame, whatever ran since, both MAC
\* addresses hold 6 elements and both IPv4 addresses hold 4.
C7_AddressLengthsAnyBuffer ==
    Decoded =>
        /\ Len(frame.dest_address) = 6
        /\ Len(frame.source_address) = 6
        /\ Len(IP.source_address) = 4
        /\ Len(IP.dest_address) = 4

\* C7 amended: in every decoded frame, whatever ran since, both MAC addresses
\* hold 6 elements, and both IPv4 addresses hold 4 when the buffer holds the
\* 20 bytes of the fixed IPv4 header (34 bytes in all), which every decoded
\* buffer with an IHL of 2 or more does.
C7_AddressLengths ==
    Decoded =>
        /\ Len(frame.dest_address) = 6
        /\ Len(frame.source_address) = 6
        /\ (Len(buf) >= 34 \/ IP.ihl >= 2) =>
               /\ Len(IP.source_address) = 4
               /\ Len(IP.dest_address) = 4

\* forge_reset has run on a frame decoded from a cut buffer with an IHL
\* below 5.
C7_Witness ==
    /\ Decoded
    /\ After("forge_reset")
    /\ IP.ihl = 4
    /\ Len(buf) < 54
    /\ Len(IP.dest_address) = 4

----------------------------------------------------------------------------
(* C8: what the TCP checksum covers.                                       *)

\* The checksum TCPPacket.replace_checksum stores in packet p.
TCPChecksumOf(p) == TCPPacket_replace_checksum(p).payload.checksum

\* Payloads as long as the segment's, with other content.
TwinPayloads(n) == {OtherPayloadBytes(n), [i \in 1..n |-> 0]}

\* C8: the checksum TCPPacket.replace_checksum has stored is the checksum of
\* the pseudo-header followed by the TCP header with a zero checksum field,
\* and a segment that differs only in the content of its payload gets the
\* same checksum.
C8_TCPChecksumIgnoresPayload ==
    After("tcp_replace_checksum") =>
        /\ TCP.checksum =
               checksum(pseudo \o
                        TCPPacket_raw_header([TCP EXCEPT !.checksum = 0]))
        /\ \A other \in TwinPayloads(Len(TCP.payload)) :
               TCPChecksumOf([IP EXCEPT !.payload.payload = other]) =
                   TCP.checksum

\* replace_checksum has run on a segment with a payload whose bytes would
\* change the checksum had they been summed.
C8_Witness ==
    /\ After("tcp_replace_checksum")
    /\ Len(TCP.payload) >= 1
    /\ OtherPayloadBytes(Len(TCP.payload)) # TCP.payload
    /\ checksum(pseudo \o TCPPacket_raw([TCP EXCEPT !.checksum = 0])) #
           TCP.checksum

----------------------------------------------------------------------------
(* C9: the order of the steps of forge_reset.                              *)

FieldsForged(t) ==
    /\ t.RST /\ ~t.NS /\ ~t.CWR /\ ~t.ECE /\ ~t.URG
    /\ ~t.ACK /\ ~t.PSH /\ ~t.SYN /\ ~t.FIN
    /\ t.ack_number = 0 /\ t.window_size = 0 /\ t.urgent_pointer = 0
    /\ t.payload = <<>>

\* The 16-bit length field that ends a pseudo-header.
PseudoLength(ph) == SubSeq(ph, Len(ph) - 1, Len(ph))

\* C9: forge_reset first assigns every field, no checksum changing; next it
\* recomputes the IPv4 checksum alone; last it recomputes the TCP checksum,
\* over a pseudo-header whose length field is the length of the emptied
\* segment, the TCP header alone, and not that of the segment as parsed.
C9_ForgeResetOrder ==
    [][/\ (pc = "idle" /\ pc' = "forge_ip") =>
              /\ FieldsForged(TCP') /\ TCP'.sequence = arg'[1]
              /\ TCP'.checksum = TCP.checksum
              /\ IP'.checksum = IP.checksum
       /\ pc = "forge_ip" =>
              /\ pc' = "forge_tcp"
              /\ TCP' = TCP
              /\ IP'.checksum = checksum(IPv4Packet_raw_header(
                                             [IP EXCEPT !.checksum = 0]))
       /\ pc = "forge_tcp" =>
              /\ pc' = "idle" /\ done' = "forge_reset"
              /\ IP'.checksum = IP.checksum
              /\ FieldsForged(TCP')
              /\ PseudoLength(pseudo') =
                     to_octets(Len(TCPPacket_raw_header(TCP')), 2)
              /\ Original.payload.payload.payload # <<>> =>
                     PseudoLength(pseudo') #
                         to_octets(Len(TCPPacket_raw(
                                           Original.payload.payload)), 2)
              /\ TCP'.checksum =
                     checksum(pseudo' \o TCPPacket_raw_header(
                                             [TCP' EXCEPT !.checksum = 0]))
      ]_vars

\* forge_reset has ended on a segment parsed with a payload, its checksum
\* computed over a pseudo-header that carries the header length.
C9_Witness ==
    /\ After("forge_reset")
    /\ pseudo # NoValue
    /\ Original.payload.payload.payload # <<>>
    /\ PseudoLength(pseudo) = to_octets(Len(TCPPacket_raw_header(TCP)), 2)
    /\ Len(TCPPacket_raw_header(TCP)) = 24

----------------------------------------------------------------------------
(* C10: what forge_reset leaves alone.                                     *)

\* Everything of the object graph but the fields forge_reset may assign.
Untouched(f) ==
    [f EXCEPT !.payload.checksum = 0,
              !.payload.payload.checksum = 0,
              !.payload.payload.NS = FALSE,
              !.payload.payload.CWR = FALSE,
              !.payload.payload.ECE = FALSE,
              !.payload.payload.URG = FALSE,
              !.payload.payload.ACK = FALSE,
              !.payload.payload.PSH = FALSE,
              !.payload.payload.RST = FALSE,
              !.payload.payload.SYN = FALSE,
              !.payload.payload.FIN = FALSE,
              !.payload.payload.sequence = 0,
              !.payload.payload.ack_number = 0,
              !.payload.payload.window_size = 0,
              !.payload.payload.urgent_pointer = 0,
              !.payload.payload.payload = <<>>]

InForgeReset == pc' \in {"forge_ip", "forge_tcp"} \/ pc \in {"forge_ip", "forge_tcp"}

\* C10: no step of forge_reset changes a TCP port, the data offset, the
\* reserved bits, the TCP options, an IPv4 field other than the header
\* checksum (the total length among them) or an Ethernet field.
C10_ForgeResetFrame ==
    [][InForgeReset =>
           /\ Untouched(frame') = Untouched(frame)
           /\ IP'.length = IP.length
           /\ TCP'.data_offset = TCP.data_offset
           /\ TCP'.options = TCP.options
           /\ buf' = buf]_vars

\* forge_reset has emptied a payload, and the IPv4 total length is still the
\* 60 of the input, which is not the length the packet now serializes to.
C10_Witness ==
    /\ After("forge_reset")
    /\ Original.payload.payload.payload # <<>>
    /\ TCP.payload = <<>>
    /\ IP.length = 60
    /\ IP.length = Original.payload.length
    /\ Len(IPv4Packet_raw(IP)) # 60
    /\ Len(IPv4Packet_raw(IP)) # Len(IPv4Packet_raw(Original.payload))

====
